---------------------------- MODULE Spec2Model ----------------------------
(***************************************************************************)
(* Model of the LLM-Chatbot front end (React providers and components)     *)
(* together with the part of the back end its claims depend on.            *)
(*                                                                         *)
(* Client code is translated from src/: ChatProvider (src/unnamed/part_001)*)
(* Home and the api module (src/unnamed/part_002), DocumentProvider,       *)
(* DocumentUpload, KnowledgeBase, ChatInterface and the EventEmitter.      *)
(* The back end (FastAPI service) is not part of src/; the operators       *)
(* prefixed Server are modelled from spec.md sections 4 and 6.             *)
(*                                                                         *)
(* Every await is a scheduling point: a handler is split into the step     *)
(* that runs up to the request and the continuation that runs once the     *)
(* response (or the failure) is delivered.                                 *)
(***************************************************************************)
EXTENDS Integers, Sequences, FiniteSets, TLC

(***************************************************************************)
(* Bounds of the model.                                                    *)
(***************************************************************************)
MaxSends == 2        \* chat requests issued in one behaviour
MaxDocs == 2         \* document identities the back end allocates
MaxChunks == 1       \* fragments one ingestion writes at most
MaxDropFiles == 1    \* files in one drop
MaxRuns == 2         \* ingestions of one document identity
MaxListeners == 2    \* registrations one event holds at most
MaxInFlight == 1     \* drops, deletes, clears and searches under way at one time

(***************************************************************************)
(* Program constants.                                                      *)
(***************************************************************************)
None == 0                      \* currentSession === null / session_id absent
maxSize == 10485760            \* useDropzone maxSize, 10 MiB
NResults == 10                 \* n_results passed by KnowledgeBase.handleSearch

Views == {"chat", "documents", "knowledge"}
UPLOADED == "document:uploaded"
DELETED == "document:deleted"
PROCESSED == "document:processed"

\* accept option of useDropzone: MIME types and the extensions listed for them
AcceptMimes == {"application/pdf",
                "application/vnd.openxmlformats-officedocument.wordprocessingml.document",
                "text/plain", "text/markdown", "image/jpeg", "image/png"}
AcceptExts == {".pdf", ".docx", ".txt", ".md", ".jpg", ".jpeg", ".png"}

(***************************************************************************)
(* Inputs of the environment.                                              *)
(***************************************************************************)
\* text typed into an input field, as a sequence of characters
Inputs == {<<" ">>, <<" ", "q">>}

\* text typed for the n-th chat message: blank, or a text not sent before
Digits == <<"1", "2", "3", "4", "5", "6", "7", "8", "9">>
ChatInputs(n) == {<<" ">>, <<" ", "m", Digits[n], " ">>}

\* files a user can drop: name extension, MIME type reported by the browser, size
Files == {[ext |-> ".pdf", mime |-> "application/pdf", size |-> 1024],
          [ext |-> ".pdf", mime |-> "application/pdf", size |-> 10485760],
          [ext |-> ".png", mime |-> "image/png", size |-> 10485761],
          [ext |-> ".exe", mime |-> "application/x-msdownload", size |-> 1024]}

(***************************************************************************)
(* Pure helpers.                                                           *)
(***************************************************************************)
RECURSIVE TrimStart(_)
TrimStart(s) ==
    IF s # <<>> /\ Head(s) = " " THEN TrimStart(Tail(s)) ELSE s

RECURSIVE TrimEnd(_)
TrimEnd(s) ==
    IF s # <<>> /\ s[Len(s)] = " " THEN TrimEnd(SubSeq(s, 1, Len(s) - 1)) ELSE s

\* String.prototype.trim
Trim(s) == TrimEnd(TrimStart(s))

Last(s) == s[Len(s)]

IsPrefix(s, t) == Len(s) <= Len(t) /\ SubSeq(t, 1, Len(s)) = s

\* ascending enumeration of a finite set of integers
RECURSIVE SortedSeq(_)
SortedSeq(S) ==
    IF S = {} THEN <<>>
    ELSE LET m == CHOOSE x \in S : \A y \in S : x <= y
         IN <<m>> \o SortedSeq(S \ {m})

SeqToSet(s) == {s[i] : i \in 1..Len(s)}

VARIABLES
    \* Home
    activeView,
    \* ChatProvider
    messages, currentSession, sessions,
    chatReqs, nextRid, sessionFetches, messageLoads,
    \* ChatInterface
    isLoading, selectedDocs, chatDocuments, chatDocFetch,
    \* module-level documentEvents and toast
    events, lastToast,
    \* documentEvents.emit: the events emitted so far, the forEach under way
    \* and the listener calls it has made
    emitLog, emitting, calls,
    \* DocumentProvider and DocumentUpload
    dpDocuments, dpRefreshes, dropLoops, deletes, fileRejections,
    \* KnowledgeBase
    kbDocuments, searchResults, isSearching, searchQuery, selectedFileType,
    kbDocFetches, searches, kbClears,
    \* back end
    srvSessions, srvMessages, srvLastChat,
    srvDocs, nextDocId, index

homeVars == <<activeView>>
chatProviderVars == <<messages, currentSession, sessions, chatReqs, nextRid,
                      sessionFetches, messageLoads>>
chatInterfaceVars == <<isLoading, selectedDocs, chatDocuments, chatDocFetch>>
globalVars == <<events, lastToast>>
emitVars == <<emitting, calls>>
docProviderVars == <<dpDocuments, dpRefreshes, dropLoops, deletes, fileRejections>>
kbStateVars == <<kbDocuments, searchResults, isSearching, searchQuery,
                 selectedFileType>>
kbReqVars == <<kbDocFetches, searches, kbClears>>
srvChatVars == <<srvSessions, srvMessages, srvLastChat>>
srvDocVars == <<srvDocs, nextDocId, index>>

vars == <<homeVars, chatProviderVars, chatInterfaceVars, globalVars, emitLog, emitVars,
          docProviderVars, kbStateVars, kbReqVars, srvChatVars, srvDocVars>>


(***************************************************************************)
(* EventEmitter (src/frontend/src/utils/eventEmitter.ts).  events maps an  *)
(* event name to its listener array; a name is absent until the first on.  *)
(* A listener is the closure of one effect run: the component it belongs   *)
(* to and the documents array that closure captured.                       *)
(***************************************************************************)
On(ev, event, listener) ==
    IF event \in DOMAIN ev
    THEN [ev EXCEPT ![event] = Append(@, listener)]
    ELSE ev @@ (event :> <<listener>>)

\* Off that removes only the first registration of the listener
Off_removesFirst(ev, event, listener) ==
    IF event \notin DOMAIN ev
    THEN ev
    ELSE LET arr == ev[event]
             hit == {i \in 1..Len(arr) : arr[i] = listener}
             first == IF hit = {} THEN 0
                      ELSE CHOOSE i \in hit : \A j \in hit : i <= j
         IN [ev EXCEPT ![event] =
                [k \in 1..(Len(arr) - (IF first = 0 THEN 0 ELSE 1)) |->
                    IF first = 0 \/ k < first THEN arr[k] ELSE arr[k + 1]]]

Off(ev, event, listener) ==
    IF event \notin DOMAIN ev
    THEN ev
    ELSE [ev EXCEPT ![event] = SelectSeq(@, LAMBDA l : l # listener)]

\* the listeners emit(event) iterates over
Listeners(event) == IF event \in DOMAIN events THEN events[event] ELSE <<>>

EmitCalls(event, comp) ==
    \E i \in 1..Len(Listeners(event)) : Listeners(event)[i].comp = comp

\* no emit is under way
NoEmit == [event |-> "none"]

KnowledgeBaseListener == [comp |-> "KnowledgeBase", documents |-> <<>>]
ChatInterfaceListener(docs) == [comp |-> "ChatInterface", documents |-> docs]

Subscribe(ev, listener) == On(On(ev, UPLOADED, listener), DELETED, listener)
Unsubscribe(ev, listener) == Off(Off(ev, UPLOADED, listener), DELETED, listener)

\* ChatInterface.handleDocumentChange: keep the ids found in the captured documents
FilterSelected(sel, docs) ==
    SelectSeq(sel, LAMBDA id : \E i \in 1..Len(docs) : docs[i].id = id)

RECURSIVE SelectedAfter(_, _)
SelectedAfter(sel, ls) ==
    IF ls = <<>> THEN sel
    ELSE SelectedAfter(IF Head(ls).comp = "ChatInterface"
                       THEN FilterSelected(sel, Head(ls).documents)
                       ELSE sel, Tail(ls))

\* documentEvents.emit(event), run after the caller has left kbDF as the
\* pending KnowledgeBase document fetches: every listener runs synchronously.
Emit(event, kbDF) ==
    /\ kbDocFetches' = kbDF \cup (IF EmitCalls(event, "KnowledgeBase")
                                  THEN {[live |-> TRUE]} ELSE {})
    /\ chatDocFetch' = (chatDocFetch \/ EmitCalls(event, "ChatInterface"))
    /\ selectedDocs' = SelectedAfter(selectedDocs, Listeners(event))
    /\ emitLog' = Append(emitLog, event)
    /\ UNCHANGED events

(***************************************************************************)
(* Back end, modelled from spec.md (sections 4.3 to 4.7 and 6).            *)
(***************************************************************************)
ExtType == (".pdf" :> "pdf") @@ (".docx" :> "docx") @@ (".txt" :> "txt") @@
           (".md" :> "md") @@ (".jpg" :> "jpg") @@ (".jpeg" :> "jpeg") @@
           (".png" :> "png") @@ (".exe" :> "exe")

\* a Document record: declared type, processing status and the number of
\* the ingestion that status belongs to
Document(fileType, status, run) ==
    [file_type |-> fileType, status |-> status, run |-> run]

\* fragment c written by the current ingestion of document d
Fragment(d, c) ==
    [doc |-> d, chunk |-> c, file_type |-> srvDocs[d].file_type,
     run |-> srvDocs[d].run]

\* GET /documents/list: Document records with the processed flag
ServerListDocuments ==
    LET ids == SortedSeq(DOMAIN srvDocs)
    IN [i \in 1..Len(ids) |->
           [id |-> ids[i], file_type |-> srvDocs[ids[i]].file_type,
            processed |-> (srvDocs[ids[i]].status = "processed")]]

\* VectorIndex.delete(document_id)
IndexDelete(idx, d) == {f \in idx : f.doc # d}

\* fragments eligible for a knowledge search with an optional file type filter
SearchEligible(fileType) ==
    {f \in index : fileType = "all" \/ f.file_type = fileType}

\* fragments as an ordered result list
RECURSIVE FragmentList(_)
FragmentList(S) ==
    IF S = {} THEN <<>>
    ELSE LET m == CHOOSE x \in S : \A y \in S :
                      x.doc < y.doc \/ (x.doc = y.doc /\ x.chunk <= y.chunk)
         IN <<m>> \o FragmentList(S \ {m})

\* RetrievalEngine.retrieve with the document allow-list of a chat request
Retrieve(selected) ==
    {f \in index : selected = <<>> \/ f.doc \in SeqToSet(selected)}

\* Generator output for a prompt built from the user's message
Generate(message) == <<"re:">> \o message

\* ChatOrchestrator: fragments handed to the ContextAssembler for a request
Attribution(req) == IF req.use_knowledge_base THEN Retrieve(req.selected_documents) ELSE {}

(***************************************************************************)
(* Initial state: the page has just rendered with activeView = 'chat'.     *)
(* The mount effects of ChatProvider, DocumentProvider and ChatInterface   *)
(* have issued their requests.                                             *)
(***************************************************************************)
InitClient ==
    /\ activeView = "chat"
    /\ messages = <<>>
    /\ currentSession = None
    /\ sessions = <<>>
    /\ chatReqs = <<>>
    /\ nextRid = 1
    /\ sessionFetches = {[hadSession |-> FALSE]}
    /\ messageLoads = {}
    /\ isLoading = FALSE
    /\ selectedDocs = <<>>
    /\ chatDocuments = <<>>
    /\ chatDocFetch = TRUE
    /\ events = Subscribe(<<>>, ChatInterfaceListener(<<>>))
    /\ lastToast = "none"
    /\ emitLog = <<>>
    /\ emitting = NoEmit
    /\ calls = <<>>
    /\ dpDocuments = <<>>
    /\ dpRefreshes = {[stage |-> "sent", docs |-> <<>>]}
    /\ dropLoops = {}
    /\ deletes = {}
    /\ fileRejections = <<>>
    /\ kbDocuments = <<>>
    /\ searchResults = <<>>
    /\ isSearching = FALSE
    /\ searchQuery = <<>>
    /\ selectedFileType = "all"
    /\ kbDocFetches = {}
    /\ searches = {}
    /\ kbClears = {}

InitServerChat ==
    /\ srvSessions = <<>>
    /\ srvMessages = <<>>
    /\ srvLastChat = [message |-> <<>>, use_knowledge_base |-> FALSE,
                      retrieved |-> FALSE, sources |-> <<>>]

(***************************************************************************)
(* Home (src/unnamed/part_002): the sidebar sets activeView; the component *)
(* of the old view unmounts (its state is discarded, its effect cleanup    *)
(* runs) and the component of the new view mounts (fresh state, effects).  *)
(* Continuations of requests an unmounted component started still run;     *)
(* their state setters no longer have any effect (live = FALSE).           *)
(***************************************************************************)
Orphan(reqs) == {[r EXCEPT !.live = FALSE] : r \in reqs}

OrphanChat(reqs) == [r \in DOMAIN reqs |-> [reqs[r] EXCEPT !.live = FALSE]]

\* registry after the cleanup of the old view and the effect of the new one
EventsAfterSwitch(old, new) ==
    LET cleaned == IF old = "chat"
                   THEN Unsubscribe(events, ChatInterfaceListener(chatDocuments))
                   ELSE IF old = "knowledge"
                   THEN Unsubscribe(events, KnowledgeBaseListener)
                   ELSE events
    IN IF new = "chat" THEN Subscribe(cleaned, ChatInterfaceListener(<<>>))
       ELSE IF new = "knowledge" THEN Subscribe(cleaned, KnowledgeBaseListener)
       ELSE cleaned

SetActiveView(v) ==
    /\ v # activeView
    /\ activeView' = v
    /\ events' = EventsAfterSwitch(activeView, v)
    \* ChatInterface: useState initial values; fetchDocuments() on mount
    /\ isLoading' = FALSE
    /\ selectedDocs' = <<>>
    /\ chatDocuments' = <<>>
    /\ chatDocFetch' = (v = "chat")
    /\ chatReqs' = IF activeView = "chat" THEN OrphanChat(chatReqs) ELSE chatReqs
    \* KnowledgeBase: useState initial values; fetchStats(), fetchDocuments() on mount
    /\ kbDocuments' = <<>>
    /\ searchResults' = <<>>
    /\ isSearching' = FALSE
    /\ searchQuery' = <<>>
    /\ selectedFileType' = "all"
    /\ kbDocFetches' = Orphan(kbDocFetches) \cup
                         (IF v = "knowledge" THEN {[live |-> TRUE]} ELSE {})
    /\ searches' = Orphan(searches)
    /\ deletes' = Orphan(deletes)
    \* DocumentUpload: the dropzone state goes with the component
    /\ fileRejections' = <<>>
    /\ kbClears' = Orphan(kbClears)
    /\ UNCHANGED <<emitLog, emitVars,
                   messages, currentSession, sessions, nextRid, sessionFetches,
                   messageLoads, lastToast, dpDocuments, dpRefreshes, dropLoops,
                   srvChatVars, srvDocVars>>

(***************************************************************************)
(* ChatProvider (src/unnamed/part_001) and ChatInterface.handleSubmit.     *)
(***************************************************************************)
UserMessage(content) == [role |-> "user", content |-> content]
AssistantMessage(content) == [role |-> "assistant", content |-> content]

\* use_knowledge_base: selectedDocIds && selectedDocIds.length > 0
UseKnowledgeBase(selectedDocIds) == Len(selectedDocIds) > 0

\* body of POST /chat/message built by sendMessage, with the closure values
\* its continuation reads later
ChatRequest(content, selectedDocIds) ==
    [message |-> content,
     session_id |-> currentSession,
     use_knowledge_base |-> UseKnowledgeBase(selectedDocIds),
     selected_documents |-> selectedDocIds,
     hadSession |-> (currentSession # None),
     live |-> TRUE]

\* HandleSubmit with setMessages((prev) => [userMessage, ...prev])
HandleSubmit_prepend(input) ==
    /\ activeView = "chat"
    /\ nextRid <= MaxSends
    /\ Trim(input) # <<>>
    /\ ~isLoading
    /\ isLoading' = TRUE
    /\ messages' = <<UserMessage(Trim(input))>> \o messages
    /\ chatReqs' = chatReqs @@ (nextRid :> ChatRequest(Trim(input), selectedDocs))
    /\ nextRid' = nextRid + 1
    /\ UNCHANGED <<homeVars, emitLog, emitVars, currentSession, sessions, sessionFetches, messageLoads,
                   selectedDocs, chatDocuments, chatDocFetch, globalVars,
                   docProviderVars, kbStateVars, kbReqVars, srvChatVars,
                   srvDocVars>>

\* handleSubmit up to the await inside sendMessage
HandleSubmit(input) ==
    /\ activeView = "chat"
    /\ nextRid <= MaxSends
    /\ Trim(input) # <<>>
    /\ ~isLoading
    /\ isLoading' = TRUE
    /\ messages' = Append(messages, UserMessage(Trim(input)))
    /\ chatReqs' = chatReqs @@ (nextRid :> ChatRequest(Trim(input), selectedDocs))
    /\ nextRid' = nextRid + 1
    /\ UNCHANGED <<homeVars, emitLog, emitVars, currentSession, sessions, sessionFetches, messageLoads,
                   selectedDocs, chatDocuments, chatDocFetch, globalVars,
                   docProviderVars, kbStateVars, kbReqVars, srvChatVars,
                   srvDocVars>>

\* session the ChatOrchestrator serves a request in: the one named, or a new one
SessionFor(req) ==
    IF req.session_id = None THEN Len(srvSessions) + 1 ELSE req.session_id

\* response.data of POST /chat/message
ChatResponse(req) ==
    [response |-> Generate(req.message),
     session_id |-> SessionFor(req),
     sources |-> FragmentList(Attribution(req))]

\* ServerChat with retrieval run for every request, whatever its flag
ServerChat_alwaysRetrieves(req) ==
    LET sid == SessionFor(req)
        old == IF sid \in DOMAIN srvMessages THEN srvMessages[sid] ELSE <<>>
        new == old \o <<UserMessage(req.message),
                        AssistantMessage(Generate(req.message))>>
    IN /\ srvLastChat' = [message |-> req.message,
                          use_knowledge_base |-> req.use_knowledge_base,
                          retrieved |-> TRUE,
                          sources |-> FragmentList(Retrieve(req.selected_documents))]
       /\ srvSessions' = IF req.session_id = None
                         THEN <<sid>> \o srvSessions ELSE srvSessions
       /\ srvMessages' = IF sid \in DOMAIN srvMessages
                         THEN [srvMessages EXCEPT ![sid] = new]
                         ELSE srvMessages @@ (sid :> new)

\* ChatOrchestrator, one request that the Generator answers: retrieval if
\* requested, then both messages are appended to the (possibly new) session
ServerChat(req) ==
    LET sid == SessionFor(req)
        old == IF sid \in DOMAIN srvMessages THEN srvMessages[sid] ELSE <<>>
        new == old \o <<UserMessage(req.message),
                        AssistantMessage(Generate(req.message))>>
    IN /\ srvLastChat' = [message |-> req.message,
                          use_knowledge_base |-> req.use_knowledge_base,
                          retrieved |-> req.use_knowledge_base,
                          sources |-> ChatResponse(req).sources]
       /\ srvSessions' = IF req.session_id = None
                         THEN <<sid>> \o srvSessions ELSE srvSessions
       /\ srvMessages' = IF sid \in DOMAIN srvMessages
                         THEN [srvMessages EXCEPT ![sid] = new]
                         ELSE srvMessages @@ (sid :> new)

\* ChatOrchestrator, one request on which the Generator fails
\* (GenerationUnavailable): nothing is appended to the session
ServerChatFail(req) ==
    /\ srvLastChat' = [message |-> req.message,
                       use_knowledge_base |-> req.use_knowledge_base,
                       retrieved |-> req.use_knowledge_base,
                       sources |-> <<>>]
    /\ UNCHANGED <<srvSessions, srvMessages>>

Without(f, x) == [y \in DOMAIN f \ {x} |-> f[y]]

\* the request is answered; sendMessage after the await, then handleSubmit's
\* finally
SendMessageOk(rid) ==
    /\ rid \in DOMAIN chatReqs
    /\ ServerChat(chatReqs[rid])
    /\ LET data == ChatResponse(chatReqs[rid])
       IN /\ messages' = Append(messages, AssistantMessage(data.response))
          /\ sessionFetches' =
                IF ~chatReqs[rid].hadSession /\ data.session_id # None
                THEN sessionFetches \cup {[hadSession |-> FALSE]}
                ELSE sessionFetches
    /\ isLoading' = IF chatReqs[rid].live THEN FALSE ELSE isLoading
    /\ chatReqs' = Without(chatReqs, rid)
    /\ UNCHANGED <<homeVars, emitLog, emitVars, currentSession, sessions, nextRid, messageLoads,
                   selectedDocs, chatDocuments, chatDocFetch, globalVars,
                   docProviderVars, kbStateVars, kbReqVars, srvDocVars>>

\* SendMessageFail with a catch block that appends a synthetic assistant message
SendMessageFail_synthetic(rid, reached) ==
    /\ rid \in DOMAIN chatReqs
    /\ IF reached THEN ServerChatFail(chatReqs[rid]) ELSE UNCHANGED srvChatVars
    /\ messages' = Append(messages, AssistantMessage(<<"error">>))
    /\ lastToast' = "error"
    /\ isLoading' = IF chatReqs[rid].live THEN FALSE ELSE isLoading
    /\ chatReqs' = Without(chatReqs, rid)
    /\ UNCHANGED <<homeVars, emitLog, emitVars, currentSession, sessions, nextRid,
                   sessionFetches, messageLoads, selectedDocs, chatDocuments,
                   chatDocFetch, events, docProviderVars, kbStateVars, kbReqVars,
                   srvDocVars>>

\* SendMessageFail with a catch block that takes the last message back
SendMessageFail_rollback(rid, reached) ==
    /\ rid \in DOMAIN chatReqs
    /\ IF reached THEN ServerChatFail(chatReqs[rid]) ELSE UNCHANGED srvChatVars
    /\ messages' = SubSeq(messages, 1, Len(messages) - 1)
    /\ lastToast' = "error"
    /\ isLoading' = IF chatReqs[rid].live THEN FALSE ELSE isLoading
    /\ chatReqs' = Without(chatReqs, rid)
    /\ UNCHANGED <<homeVars, emitLog, emitVars, currentSession, sessions, nextRid,
                   sessionFetches, messageLoads, selectedDocs, chatDocuments,
                   chatDocFetch, events, docProviderVars, kbStateVars, kbReqVars,
                   srvDocVars>>

\* the request fails, at the Generator (reached) or in transport; sendMessage's
\* catch rethrows and handleSubmit's catch shows the error toast
SendMessageFail(rid, reached) ==
    /\ rid \in DOMAIN chatReqs
    /\ IF reached THEN ServerChatFail(chatReqs[rid]) ELSE UNCHANGED srvChatVars
    /\ lastToast' = "error"
    /\ isLoading' = IF chatReqs[rid].live THEN FALSE ELSE isLoading
    /\ chatReqs' = Without(chatReqs, rid)
    /\ UNCHANGED <<homeVars, emitLog, emitVars, messages, currentSession, sessions, nextRid,
                   sessionFetches, messageLoads, selectedDocs, chatDocuments,
                   chatDocFetch, events, docProviderVars, kbStateVars, kbReqVars,
                   srvDocVars>>

\* fetchSessions after GET /chat/sessions resolved
FetchSessionsDone(f) ==
    /\ f \in sessionFetches
    /\ sessions' = srvSessions
    /\ IF Len(srvSessions) > 0 /\ ~f.hadSession
       THEN /\ currentSession' = srvSessions[1]
            /\ messageLoads' = messageLoads \cup {srvSessions[1]}
       ELSE UNCHANGED <<currentSession, messageLoads>>
    /\ sessionFetches' = sessionFetches \ {f}
    /\ UNCHANGED <<homeVars, emitLog, emitVars, messages, chatReqs, nextRid, chatInterfaceVars,
                   globalVars, docProviderVars, kbStateVars, kbReqVars,
                   srvChatVars, srvDocVars>>

FetchSessionsFail(f) ==
    /\ f \in sessionFetches
    /\ sessionFetches' = sessionFetches \ {f}
    /\ UNCHANGED <<homeVars, emitLog, emitVars, messages, currentSession, sessions, chatReqs, nextRid,
                   messageLoads, chatInterfaceVars, globalVars, docProviderVars,
                   kbStateVars, kbReqVars, srvChatVars, srvDocVars>>

\* loadSessionMessages after GET /chat/sessions/{id}/messages resolved
LoadSessionMessagesDone(sid) ==
    /\ sid \in messageLoads
    /\ sid \in DOMAIN srvMessages
    /\ messages' = [i \in 1..Len(srvMessages[sid]) |->
                       [role |-> srvMessages[sid][i].role,
                        content |-> srvMessages[sid][i].content]]
    /\ messageLoads' = messageLoads \ {sid}
    /\ UNCHANGED <<homeVars, emitLog, emitVars, currentSession, sessions, chatReqs, nextRid,
                   sessionFetches, chatInterfaceVars, globalVars, docProviderVars,
                   kbStateVars, kbReqVars, srvChatVars, srvDocVars>>

LoadSessionMessagesFail(sid) ==
    /\ sid \in messageLoads
    /\ messageLoads' = messageLoads \ {sid}
    /\ UNCHANGED <<homeVars, emitLog, emitVars, messages, currentSession, sessions, chatReqs, nextRid,
                   sessionFetches, chatInterfaceVars, globalVars, docProviderVars,
                   kbStateVars, kbReqVars, srvChatVars, srvDocVars>>

\* the "Clear chat" button of ChatInterface
ClearMessages ==
    /\ activeView = "chat"
    /\ messages' = <<>>
    /\ UNCHANGED <<homeVars, emitLog, emitVars, currentSession, sessions, chatReqs, nextRid,
                   sessionFetches, messageLoads, chatInterfaceVars, globalVars,
                   docProviderVars, kbStateVars, kbReqVars, srvChatVars,
                   srvDocVars>>

(***************************************************************************)
(* ChatInterface: document list and selection.                             *)
(***************************************************************************)
Includes(s, x) == \E i \in 1..Len(s) : s[i] = x

ToggleDocSelection(docId) ==
    /\ activeView = "chat"
    /\ \E i \in 1..Len(chatDocuments) : chatDocuments[i].id = docId
    /\ selectedDocs' = IF Includes(selectedDocs, docId)
                       THEN SelectSeq(selectedDocs, LAMBDA id : id # docId)
                       ELSE Append(selectedDocs, docId)
    /\ UNCHANGED <<homeVars, emitLog, emitVars, chatProviderVars, isLoading, chatDocuments,
                   chatDocFetch, globalVars, docProviderVars, kbStateVars,
                   kbReqVars, srvChatVars, srvDocVars>>

\* ChatFetchDocumentsDone with an effect that has no cleanup
ChatFetchDocumentsDone_noCleanup ==
    /\ activeView = "chat"
    /\ chatDocFetch
    /\ chatDocuments' = SelectSeq(ServerListDocuments, LAMBDA doc : doc.processed)
    /\ chatDocFetch' = TRUE
    /\ events' = Subscribe(events, ChatInterfaceListener(chatDocuments'))
    /\ UNCHANGED <<homeVars, emitLog, emitVars, chatProviderVars, isLoading,
                   selectedDocs, lastToast, docProviderVars, kbStateVars,
                   kbReqVars, srvChatVars, srvDocVars>>

\* fetchDocuments resolved: setDocuments with a new array; the effect with
\* dependency [documents] then runs again: cleanup (off), fetchDocuments(),
\* and on with a handler that captured the new array
ChatFetchDocumentsDone ==
    /\ activeView = "chat"
    /\ chatDocFetch
    /\ chatDocuments' = SelectSeq(ServerListDocuments, LAMBDA doc : doc.processed)
    /\ chatDocFetch' = TRUE
    /\ events' = Subscribe(Unsubscribe(events, ChatInterfaceListener(chatDocuments)),
                           ChatInterfaceListener(chatDocuments'))
    /\ UNCHANGED <<homeVars, emitLog, emitVars, chatProviderVars, isLoading, selectedDocs, lastToast,
                   docProviderVars, kbStateVars, kbReqVars, srvChatVars,
                   srvDocVars>>

ChatFetchDocumentsFail ==
    /\ activeView = "chat"
    /\ chatDocFetch
    /\ chatDocFetch' = FALSE
    /\ UNCHANGED <<homeVars, emitLog, emitVars, chatProviderVars, isLoading, selectedDocs,
                   chatDocuments, globalVars, docProviderVars, kbStateVars,
                   kbReqVars, srvChatVars, srvDocVars>>

(***************************************************************************)
(* Operations the user has started and that have not completed.            *)
(***************************************************************************)
InFlightOps ==
    Cardinality(dropLoops) + Cardinality(deletes) + Cardinality(kbClears)
        + Cardinality(searches)

(***************************************************************************)
(* DocumentProvider (src/frontend/src/contexts/DocumentContext.tsx) and    *)
(* DocumentUpload (src/frontend/src/components/DocumentUpload.tsx).        *)
(***************************************************************************)
\* FileAccepted without the maxSize option
FileAccepted_ignoresSize(file) ==
    file.mime \in AcceptMimes \/ file.ext \in AcceptExts

\* react-dropzone with the accept and maxSize options of DocumentUpload
FileAccepted(file) ==
    /\ (file.mime \in AcceptMimes \/ file.ext \in AcceptExts)
    /\ file.size <= maxSize

AcceptedFiles(files) == SelectSeq(files, FileAccepted)

RefreshRequest == [stage |-> "sent", docs |-> <<>>]

DropSequences == UNION {[1..n -> Files] : n \in 1..MaxDropFiles}

\* a drop: the dropzone filters the files, onDrop starts uploadDocument for
\* the first accepted one (or, with none accepted, only refreshes)
OnDrop(files) ==
    /\ activeView = "documents"
    /\ InFlightOps < MaxInFlight
    /\ fileRejections' = SelectSeq(files, LAMBDA f : ~FileAccepted(f))
    /\ LET acceptedFiles == AcceptedFiles(files)
       IN IF acceptedFiles = <<>>
          THEN /\ dpRefreshes' = dpRefreshes \cup {RefreshRequest}
               /\ UNCHANGED dropLoops
          ELSE /\ dropLoops' = dropLoops \cup
                     {[files |-> acceptedFiles, stage |-> "post", docs |-> <<>>]}
               /\ UNCHANGED dpRefreshes
    /\ UNCHANGED <<homeVars, emitLog, emitVars, chatProviderVars, chatInterfaceVars, globalVars,
                   dpDocuments, deletes, kbStateVars, kbReqVars, srvChatVars,
                   srvDocVars>>

\* POST /documents/upload accepted: a Document with status pending is created
ServerUpload(loop) ==
    /\ loop \in dropLoops
    /\ loop.stage = "post"
    /\ nextDocId <= MaxDocs
    /\ srvDocs' = srvDocs @@
          (nextDocId :> Document(ExtType[Head(loop.files).ext], "pending", 1))
    /\ nextDocId' = nextDocId + 1
    /\ dropLoops' = (dropLoops \ {loop}) \cup {[loop EXCEPT !.stage = "posted"]}
    /\ UNCHANGED <<homeVars, emitLog, emitVars, chatProviderVars, chatInterfaceVars, globalVars,
                   dpDocuments, dpRefreshes, deletes, kbStateVars, kbReqVars,
                   srvChatVars, index, fileRejections>>

\* the upload request is rejected or lost
ServerUploadFail(loop) ==
    /\ loop \in dropLoops
    /\ loop.stage = "post"
    /\ dropLoops' = (dropLoops \ {loop}) \cup {[loop EXCEPT !.stage = "post_err"]}
    /\ UNCHANGED <<homeVars, emitLog, emitVars, chatProviderVars, chatInterfaceVars, globalVars,
                   dpDocuments, dpRefreshes, deletes, kbStateVars, kbReqVars,
                   srvChatVars, srvDocVars, fileRejections>>

\* IngestionPipeline reaches processed: the fragments are in the VectorIndex
ServerIngestDone(d, n) ==
    /\ d \in DOMAIN srvDocs
    /\ srvDocs[d].status = "pending"
    /\ srvDocs' = [srvDocs EXCEPT ![d].status = "processed"]
    /\ index' = index \cup {Fragment(d, c) : c \in 1..n}
    /\ UNCHANGED <<homeVars, emitLog, emitVars, chatProviderVars, chatInterfaceVars, globalVars,
                   docProviderVars, kbStateVars, kbReqVars, srvChatVars, nextDocId>>

\* IngestionPipeline fails: nothing of the document stays in the VectorIndex
ServerIngestFail(d) ==
    /\ d \in DOMAIN srvDocs
    /\ srvDocs[d].status = "pending"
    /\ srvDocs' = [srvDocs EXCEPT ![d].status = "failed"]
    /\ index' = IndexDelete(index, d)
    /\ UNCHANGED <<homeVars, emitLog, emitVars, chatProviderVars, chatInterfaceVars, globalVars,
                   docProviderVars, kbStateVars, kbReqVars, srvChatVars, nextDocId>>

(***************************************************************************)
(* IngestionPipeline, stage by stage (spec.md section 4.4).  The two       *)
(* actions above are one whole ingestion seen from the client, which reads *)
(* only the processed flag; the actions below are its stages.              *)
(***************************************************************************)
Stages == <<"pending", "extracting", "chunking", "embedding", "indexing",
            "processed">>

Terminal == {"processed", "failed"}

\* position of a status in the state machine
StageOf(status) == CHOOSE i \in 1..Len(Stages) : Stages[i] = status

\* fragments of document d in the VectorIndex
FragmentsOf(d) == {f \in index : f.doc = d}

PipelineFrame ==
    UNCHANGED <<homeVars, emitLog, emitVars, chatProviderVars, chatInterfaceVars,
                globalVars, docProviderVars, kbStateVars, kbReqVars, srvChatVars>>

\* ingest a document: a new Document with its initial pending status
PipelineSubmit(fileType) ==
    /\ nextDocId <= MaxDocs
    /\ srvDocs' = srvDocs @@ (nextDocId :> Document(fileType, "pending", 1))
    /\ nextDocId' = nextDocId + 1
    /\ UNCHANGED index
    /\ PipelineFrame

\* a stage completes and the next one starts: pending, extracting, chunking,
\* embedding, indexing
PipelineAdvance(d) ==
    /\ d \in DOMAIN srvDocs
    /\ srvDocs[d].status \in {"pending", "extracting", "chunking", "embedding"}
    /\ srvDocs' = [srvDocs EXCEPT ![d].status = Stages[StageOf(@) + 1]]
    /\ UNCHANGED <<index, nextDocId>>
    /\ PipelineFrame

\* the indexing stage writes the next fragment of the document
PipelineIndexWrite(d) ==
    /\ d \in DOMAIN srvDocs
    /\ srvDocs[d].status = "indexing"
    /\ Cardinality(FragmentsOf(d)) < MaxChunks
    /\ index' = index \cup {Fragment(d, Cardinality(FragmentsOf(d)) + 1)}
    /\ UNCHANGED <<srvDocs, nextDocId>>
    /\ PipelineFrame

\* PipelineComplete that starts the document over
PipelineComplete_restarts(d) ==
    /\ d \in DOMAIN srvDocs
    /\ srvDocs[d].status = "indexing"
    /\ srvDocs' = [srvDocs EXCEPT ![d].status = "extracting"]
    /\ UNCHANGED <<index, nextDocId>>
    /\ PipelineFrame

\* the indexing stage completes
PipelineComplete(d) ==
    /\ d \in DOMAIN srvDocs
    /\ srvDocs[d].status = "indexing"
    /\ srvDocs' = [srvDocs EXCEPT ![d].status = "processed"]
    /\ UNCHANGED <<index, nextDocId>>
    /\ PipelineFrame

\* PipelineFail that leaves the fragments already written in the index
PipelineFail_noRollback(d) ==
    /\ d \in DOMAIN srvDocs
    /\ srvDocs[d].status \notin Terminal
    /\ srvDocs' = [srvDocs EXCEPT ![d].status = "failed"]
    /\ UNCHANGED <<index, nextDocId>>
    /\ PipelineFrame

\* a stage fails (ExtractionFailed, EmbeddingUnavailable, IndexWriteFailed):
\* what was written for the document is rolled back
PipelineFail(d) ==
    /\ d \in DOMAIN srvDocs
    /\ srvDocs[d].status \notin Terminal
    /\ srvDocs' = [srvDocs EXCEPT ![d].status = "failed"]
    /\ index' = IndexDelete(index, d)
    /\ UNCHANGED nextDocId
    /\ PipelineFrame

\* PipelineReingest that does not delete the prior fragments
PipelineReingest_keepsFragments(d) ==
    /\ d \in DOMAIN srvDocs
    /\ srvDocs[d].status \in Terminal
    /\ srvDocs[d].run < MaxRuns
    /\ srvDocs' = [srvDocs EXCEPT ![d] = Document(@.file_type, "pending", @.run + 1)]
    /\ UNCHANGED <<index, nextDocId>>
    /\ PipelineFrame

\* the same document identity is ingested again, once no ingestion of it is
\* under way: the prior fragments are deleted first and a new ingestion of
\* the identity starts
PipelineReingest(d) ==
    /\ d \in DOMAIN srvDocs
    /\ srvDocs[d].status \in Terminal
    /\ srvDocs[d].run < MaxRuns
    /\ srvDocs' = [srvDocs EXCEPT ![d] = Document(@.file_type, "pending", @.run + 1)]
    /\ index' = IndexDelete(index, d)
    /\ UNCHANGED nextDocId
    /\ PipelineFrame

\* uploadDocument's awaited refreshDocuments: GET /documents/list answered
ServerListForUpload(loop) ==
    /\ loop \in dropLoops
    /\ loop.stage = "posted"
    /\ dropLoops' = (dropLoops \ {loop}) \cup
          {[loop EXCEPT !.stage = "refreshed", !.docs = ServerListDocuments]}
    /\ UNCHANGED <<homeVars, emitLog, emitVars, chatProviderVars, chatInterfaceVars, globalVars,
                   dpDocuments, dpRefreshes, deletes, kbStateVars, kbReqVars,
                   srvChatVars, srvDocVars, fileRejections>>

\* onDrop goes on to the next accepted file, or leaves the loop and calls
\* refreshDocuments()
NextFile(loop) ==
    IF Len(loop.files) > 1
    THEN /\ dropLoops' = (dropLoops \ {loop}) \cup
               {[files |-> Tail(loop.files), stage |-> "post", docs |-> <<>>]}
         /\ UNCHANGED dpRefreshes
    ELSE /\ dropLoops' = dropLoops \ {loop}
         /\ dpRefreshes' = dpRefreshes \cup {RefreshRequest}

\* uploadDocument returned: toast, emit UPLOADED, next file.  refreshed is
\* FALSE when the awaited refresh failed (refreshDocuments swallows the error)
UploadDone(loop, refreshed) ==
    /\ loop \in dropLoops
    /\ \/ loop.stage = "refreshed"
       \/ loop.stage = "posted" /\ ~refreshed
    /\ dpDocuments' = IF refreshed THEN loop.docs ELSE dpDocuments
    /\ lastToast' = "success"
    /\ Emit(UPLOADED, kbDocFetches)
    /\ NextFile(loop)
    /\ UNCHANGED <<homeVars, emitVars, chatProviderVars, isLoading, chatDocuments, deletes,
                   kbStateVars, searches, kbClears, srvChatVars, srvDocVars, fileRejections>>

\* UploadFail with a catch block that emits UPLOADED all the same
UploadFail_emits(loop) ==
    /\ loop \in dropLoops
    /\ loop.stage = "post_err"
    /\ lastToast' = "error"
    /\ Emit(UPLOADED, kbDocFetches)
    /\ NextFile(loop)
    /\ UNCHANGED <<homeVars, emitVars, chatProviderVars, isLoading, chatDocuments,
                   dpDocuments, deletes, kbStateVars, searches, kbClears,
                   srvChatVars, srvDocVars, fileRejections>>

\* uploadDocument threw: onDrop's catch shows the error toast
UploadFail(loop) ==
    /\ loop \in dropLoops
    /\ loop.stage = "post_err"
    /\ lastToast' = "error"
    /\ NextFile(loop)
    /\ UNCHANGED <<homeVars, emitLog, emitVars, chatProviderVars, chatInterfaceVars, events,
                   dpDocuments, deletes, kbStateVars, kbReqVars, srvChatVars,
                   srvDocVars, fileRejections>>

\* GET /documents/list of a refreshDocuments call answered (one response is
\* on its way to the client at a time)
ServerListForRefresh(r) ==
    /\ r \in dpRefreshes
    /\ r.stage = "sent"
    /\ \A o \in dpRefreshes : o.stage = "sent"
    /\ dpRefreshes' = (dpRefreshes \ {r}) \cup
          {[stage |-> "replied", docs |-> ServerListDocuments]}
    /\ UNCHANGED <<homeVars, emitLog, emitVars, chatProviderVars, chatInterfaceVars, globalVars,
                   dpDocuments, dropLoops, deletes, kbStateVars, kbReqVars,
                   srvChatVars, srvDocVars, fileRejections>>

RefreshDocumentsDone(r) ==
    /\ r \in dpRefreshes
    /\ r.stage = "replied"
    /\ dpDocuments' = r.docs
    /\ dpRefreshes' = dpRefreshes \ {r}
    /\ UNCHANGED <<homeVars, emitLog, emitVars, chatProviderVars, chatInterfaceVars, globalVars,
                   dropLoops, deletes, kbStateVars, kbReqVars, srvChatVars,
                   srvDocVars, fileRejections>>

RefreshDocumentsFail(r) ==
    /\ r \in dpRefreshes
    /\ dpRefreshes' = dpRefreshes \ {r}
    /\ UNCHANGED <<homeVars, emitLog, emitVars, chatProviderVars, chatInterfaceVars, globalVars,
                   dpDocuments, dropLoops, deletes, kbStateVars, kbReqVars,
                   srvChatVars, srvDocVars, fileRejections>>

(***************************************************************************)
(* Deleting a document, from DocumentUpload.handleDelete or from           *)
(* KnowledgeBase.deleteDocument (the confirm dialog was accepted).         *)
(***************************************************************************)
DeleteRequest(docId, from) ==
    [id |-> docId, from |-> from, live |-> TRUE, stage |-> "sent"]

HandleDelete(docId) ==
    /\ activeView = "documents"
    /\ InFlightOps < MaxInFlight
    /\ \E i \in 1..Len(dpDocuments) : dpDocuments[i].id = docId
    /\ deletes' = deletes \cup {DeleteRequest(docId, "DocumentUpload")}
    /\ UNCHANGED <<homeVars, emitLog, emitVars, chatProviderVars, chatInterfaceVars, globalVars,
                   dpDocuments, dpRefreshes, dropLoops, kbStateVars, kbReqVars,
                   srvChatVars, srvDocVars, fileRejections>>

KbDeleteDocument(docId) ==
    /\ activeView = "knowledge"
    /\ InFlightOps < MaxInFlight
    /\ \E i \in 1..Len(kbDocuments) : kbDocuments[i].id = docId
    /\ deletes' = deletes \cup {DeleteRequest(docId, "KnowledgeBase")}
    /\ UNCHANGED <<homeVars, emitLog, emitVars, chatProviderVars, chatInterfaceVars, globalVars,
                   dpDocuments, dpRefreshes, dropLoops, kbStateVars, kbReqVars,
                   srvChatVars, srvDocVars, fileRejections>>

\* DELETE /documents/{id}: the Document goes, and with it its fragments and
\* their VectorIndex entries; an unknown id is answered with an error
\* ServerDelete that removes the Document and leaves its fragments indexed
ServerDelete_noCascade(r) ==
    /\ r \in deletes
    /\ r.stage = "sent"
    /\ IF r.id \in DOMAIN srvDocs
       THEN /\ srvDocs' = Without(srvDocs, r.id)
            /\ deletes' = (deletes \ {r}) \cup {[r EXCEPT !.stage = "ok"]}
            /\ UNCHANGED index
       ELSE /\ deletes' = (deletes \ {r}) \cup {[r EXCEPT !.stage = "error"]}
            /\ UNCHANGED <<srvDocs, index>>
    /\ UNCHANGED <<homeVars, emitLog, emitVars, chatProviderVars, chatInterfaceVars, globalVars,
                   dpDocuments, dpRefreshes, dropLoops, kbStateVars, kbReqVars,
                   srvChatVars, nextDocId, fileRejections>>

ServerDelete(r) ==
    /\ r \in deletes
    /\ r.stage = "sent"
    /\ IF r.id \in DOMAIN srvDocs
       THEN /\ srvDocs' = Without(srvDocs, r.id)
            /\ index' = IndexDelete(index, r.id)
            /\ deletes' = (deletes \ {r}) \cup {[r EXCEPT !.stage = "ok"]}
       ELSE /\ deletes' = (deletes \ {r}) \cup {[r EXCEPT !.stage = "error"]}
            /\ UNCHANGED <<srvDocs, index>>
    /\ UNCHANGED <<homeVars, emitLog, emitVars, chatProviderVars, chatInterfaceVars, globalVars,
                   dpDocuments, dpRefreshes, dropLoops, kbStateVars, kbReqVars,
                   srvChatVars, nextDocId, fileRejections>>

ServerDeleteFail(r) ==
    /\ r \in deletes
    /\ r.stage = "sent"
    /\ deletes' = (deletes \ {r}) \cup {[r EXCEPT !.stage = "error"]}
    /\ UNCHANGED <<homeVars, emitLog, emitVars, chatProviderVars, chatInterfaceVars, globalVars,
                   dpDocuments, dpRefreshes, dropLoops, kbStateVars, kbReqVars,
                   srvChatVars, srvDocVars, fileRejections>>

\* DocumentProvider.deleteDocument resolved, then the rest of handleDelete
HandleDeleteDone(r) ==
    /\ r \in deletes
    /\ r.from = "DocumentUpload"
    /\ r.stage = "ok"
    /\ dpDocuments' = SelectSeq(dpDocuments, LAMBDA doc : doc.id # r.id)
    /\ lastToast' = "success"
    /\ dpRefreshes' = dpRefreshes \cup {RefreshRequest}
    /\ Emit(DELETED, kbDocFetches)
    /\ deletes' = deletes \ {r}
    /\ UNCHANGED <<homeVars, emitVars, chatProviderVars, isLoading, chatDocuments,
                   dropLoops, kbStateVars, searches, kbClears, srvChatVars,
                   srvDocVars, fileRejections>>

\* KnowledgeBase.deleteDocument after documentApi.delete resolved
KbDeleteDocumentDone(r) ==
    /\ r \in deletes
    /\ r.from = "KnowledgeBase"
    /\ r.stage = "ok"
    /\ lastToast' = "success"
    /\ Emit(DELETED, kbDocFetches \cup {[live |-> r.live]})
    /\ deletes' = deletes \ {r}
    /\ UNCHANGED <<homeVars, emitVars, chatProviderVars, isLoading, chatDocuments,
                   dpDocuments, dpRefreshes, dropLoops, kbStateVars, searches,
                   kbClears, srvChatVars, srvDocVars, fileRejections>>

\* either delete handler's catch
DeleteFail(r) ==
    /\ r \in deletes
    /\ r.stage = "error"
    /\ lastToast' = "error"
    /\ deletes' = deletes \ {r}
    /\ UNCHANGED <<homeVars, emitLog, emitVars, chatProviderVars, chatInterfaceVars, events,
                   dpDocuments, dpRefreshes, dropLoops, kbStateVars, kbReqVars,
                   srvChatVars, srvDocVars, fileRejections>>

(***************************************************************************)
(* KnowledgeBase (src/frontend/src/components/KnowledgeBase.tsx).          *)
(* The statistics panel (fetchStats / setStats) is left out: the handlers  *)
(* below call fetchStats() next to fetchDocuments(), and it writes nothing *)
(* but the stats state.                                                    *)
(***************************************************************************)
\* fetchDocuments resolved
KbFetchDocumentsDone(k) ==
    /\ k \in kbDocFetches
    /\ kbDocuments' = IF k.live THEN ServerListDocuments ELSE kbDocuments
    /\ kbDocFetches' = kbDocFetches \ {k}
    /\ UNCHANGED <<homeVars, emitLog, emitVars, chatProviderVars, chatInterfaceVars, globalVars,
                   docProviderVars, searchResults, isSearching, searchQuery,
                   selectedFileType, searches, kbClears,
                   srvChatVars, srvDocVars>>

\* fetchDocuments' catch: toast.error('Failed to load documents')
KbFetchDocumentsFail(k) ==
    /\ k \in kbDocFetches
    /\ lastToast' = "error"
    /\ kbDocFetches' = kbDocFetches \ {k}
    /\ UNCHANGED <<homeVars, emitLog, emitVars, chatProviderVars, chatInterfaceVars, events,
                   docProviderVars, kbStateVars, searches,
                   kbClears, srvChatVars, srvDocVars>>

\* typing into the search box (disabled while a search runs)
SetSearchQuery(q) ==
    /\ activeView = "knowledge"
    /\ ~isSearching
    /\ searchQuery' = q
    /\ UNCHANGED <<homeVars, emitLog, emitVars, chatProviderVars, chatInterfaceVars, globalVars,
                   docProviderVars, kbDocuments, searchResults, isSearching,
                   selectedFileType, kbReqVars, srvChatVars, srvDocVars>>

\* the file type select: 'all' or a type of a listed document
SetSelectedFileType(t) ==
    /\ activeView = "knowledge"
    /\ \/ t = "all"
       \/ \E i \in 1..Len(kbDocuments) : kbDocuments[i].file_type = t
    /\ selectedFileType' = t
    /\ UNCHANGED <<homeVars, emitLog, emitVars, chatProviderVars, chatInterfaceVars, globalVars,
                   docProviderVars, kbDocuments, searchResults, isSearching,
                   searchQuery, kbReqVars, srvChatVars, srvDocVars>>

\* handleSearch up to the await
HandleSearch ==
    /\ activeView = "knowledge"
    /\ InFlightOps < MaxInFlight
    /\ ~isSearching
    /\ Trim(searchQuery) # <<>>
    /\ isSearching' = TRUE
    /\ searches' = searches \cup
          {[query |-> searchQuery, file_type |-> selectedFileType, live |-> TRUE,
            stage |-> "sent", results |-> <<>>]}
    /\ UNCHANGED <<homeVars, emitLog, emitVars, chatProviderVars, chatInterfaceVars, globalVars,
                   docProviderVars, kbDocuments, searchResults, searchQuery,
                   selectedFileType, kbDocFetches, kbClears,
                   srvChatVars, srvDocVars>>

\* POST /knowledge/search: the fragments that clear the similarity threshold
\* for this query are some of the eligible ones, at most n_results of them
ServerSearch(srch, hits) ==
    /\ srch \in searches
    /\ srch.stage = "sent"
    /\ hits \subseteq SearchEligible(srch.file_type)
    /\ Cardinality(hits) <= NResults
    /\ searches' = (searches \ {srch}) \cup
          {[srch EXCEPT !.stage = "ok", !.results = FragmentList(hits)]}
    /\ UNCHANGED <<homeVars, emitLog, emitVars, chatProviderVars, chatInterfaceVars, globalVars,
                   docProviderVars, kbStateVars, kbDocFetches, kbClears, srvChatVars, srvDocVars>>

\* retrieval failed, or the request was lost
ServerSearchFail(srch) ==
    /\ srch \in searches
    /\ srch.stage = "sent"
    /\ searches' = (searches \ {srch}) \cup {[srch EXCEPT !.stage = "error"]}
    /\ UNCHANGED <<homeVars, emitLog, emitVars, chatProviderVars, chatInterfaceVars, globalVars,
                   docProviderVars, kbStateVars, kbDocFetches, kbClears, srvChatVars, srvDocVars>>

\* handleSearch after the await resolved, and its finally
HandleSearchDone(srch) ==
    /\ srch \in searches
    /\ srch.stage = "ok"
    /\ searchResults' = IF srch.live THEN srch.results ELSE searchResults
    /\ lastToast' = IF Len(srch.results) = 0 THEN "info" ELSE lastToast
    /\ isSearching' = IF srch.live THEN FALSE ELSE isSearching
    /\ searches' = searches \ {srch}
    /\ UNCHANGED <<homeVars, emitLog, emitVars, chatProviderVars, chatInterfaceVars, events,
                   docProviderVars, kbDocuments, searchQuery,
                   selectedFileType, kbDocFetches, kbClears,
                   srvChatVars, srvDocVars>>

\* HandleSearchFail with a catch block that also empties the result list
HandleSearchFail_clearsResults(srch) ==
    /\ srch \in searches
    /\ srch.stage = "error"
    /\ lastToast' = "error"
    /\ searchResults' = IF srch.live THEN <<>> ELSE searchResults
    /\ isSearching' = IF srch.live THEN FALSE ELSE isSearching
    /\ searches' = searches \ {srch}
    /\ UNCHANGED <<homeVars, emitLog, emitVars, chatProviderVars, chatInterfaceVars, events,
                   docProviderVars, kbDocuments, searchQuery,
                   selectedFileType, kbDocFetches, kbClears,
                   srvChatVars, srvDocVars>>

\* handleSearch's catch, and its finally
HandleSearchFail(srch) ==
    /\ srch \in searches
    /\ srch.stage = "error"
    /\ lastToast' = "error"
    /\ isSearching' = IF srch.live THEN FALSE ELSE isSearching
    /\ searches' = searches \ {srch}
    /\ UNCHANGED <<homeVars, emitLog, emitVars, chatProviderVars, chatInterfaceVars, events,
                   docProviderVars, kbDocuments, searchResults, searchQuery,
                   selectedFileType, kbDocFetches, kbClears,
                   srvChatVars, srvDocVars>>

\* clearKnowledgeBase up to the await (the confirm dialog was accepted)
ClearKnowledgeBase ==
    /\ activeView = "knowledge"
    /\ InFlightOps < MaxInFlight
    /\ kbClears' = kbClears \cup {[live |-> TRUE, stage |-> "sent"]}
    /\ UNCHANGED <<homeVars, emitLog, emitVars, chatProviderVars, chatInterfaceVars, globalVars,
                   docProviderVars, kbStateVars, kbDocFetches, searches, srvChatVars, srvDocVars>>

\* DELETE /knowledge/clear: all fragments and vector entries are wiped and
\* the Documents are deleted with them
ServerClear(c) ==
    /\ c \in kbClears
    /\ c.stage = "sent"
    /\ index' = {}
    /\ srvDocs' = <<>>
    /\ kbClears' = (kbClears \ {c}) \cup {[c EXCEPT !.stage = "ok"]}
    /\ UNCHANGED <<homeVars, emitLog, emitVars, chatProviderVars, chatInterfaceVars, globalVars,
                   docProviderVars, kbStateVars, kbDocFetches, searches, srvChatVars, nextDocId>>

ServerClearFail(c) ==
    /\ c \in kbClears
    /\ c.stage = "sent"
    /\ kbClears' = (kbClears \ {c}) \cup {[c EXCEPT !.stage = "error"]}
    /\ UNCHANGED <<homeVars, emitLog, emitVars, chatProviderVars, chatInterfaceVars, globalVars,
                   docProviderVars, kbStateVars, kbDocFetches, searches, srvChatVars, srvDocVars>>

\* ClearKnowledgeBaseDone without setSearchResults([])
ClearKnowledgeBaseDone_keepsResults(c) ==
    /\ c \in kbClears
    /\ c.stage = "ok"
    /\ lastToast' = "success"
    /\ kbDocFetches' = kbDocFetches \cup {[live |-> c.live]}
    /\ kbClears' = kbClears \ {c}
    /\ UNCHANGED <<homeVars, emitLog, emitVars, chatProviderVars, chatInterfaceVars, events,
                   docProviderVars, kbDocuments, searchResults, isSearching,
                   searchQuery, selectedFileType, searches, srvChatVars,
                   srvDocVars>>

\* clearKnowledgeBase after knowledgeApi.clear() resolved
ClearKnowledgeBaseDone(c) ==
    /\ c \in kbClears
    /\ c.stage = "ok"
    /\ lastToast' = "success"
    /\ searchResults' = IF c.live THEN <<>> ELSE searchResults
    /\ kbDocFetches' = kbDocFetches \cup {[live |-> c.live]}
    /\ kbClears' = kbClears \ {c}
    /\ UNCHANGED <<homeVars, emitLog, emitVars, chatProviderVars, chatInterfaceVars, events,
                   docProviderVars, kbDocuments, isSearching, searchQuery,
                   selectedFileType, searches, srvChatVars, srvDocVars>>

\* clearKnowledgeBase's catch
ClearKnowledgeBaseFail(c) ==
    /\ c \in kbClears
    /\ c.stage = "error"
    /\ lastToast' = "error"
    /\ kbClears' = kbClears \ {c}
    /\ UNCHANGED <<homeVars, emitLog, emitVars, chatProviderVars, chatInterfaceVars, events,
                   docProviderVars, kbStateVars, kbDocFetches, searches, srvChatVars, srvDocVars>>

(***************************************************************************)
(* Specifications.                                                         *)
(***************************************************************************)
FileTypes == {"all"} \cup {ExtType[f.ext] : f \in Files}

\* knowledge bases the chat can start against
KnowledgeBases == {0, 1}

InitChat ==
    /\ InitClient
    /\ InitServerChat
    /\ \E k \in KnowledgeBases :
          /\ srvDocs = [d \in 1..k |-> Document("pdf", "processed", 1)]
          /\ index = {[doc |-> d, chunk |-> 1, file_type |-> "pdf", run |-> 1] :
                         d \in 1..k}
          /\ nextDocId = k + 1

InitDocs ==
    /\ InitClient
    /\ InitServerChat
    /\ srvDocs = <<>>
    /\ index = {}
    /\ nextDocId = 1

\* file types of the documents a populated knowledge base starts with
InitialTypes == <<"pdf", "txt">>

InitKnowledge ==
    /\ InitClient
    /\ InitServerChat
    /\ srvDocs = [d \in 1..Len(InitialTypes) |->
                     Document(InitialTypes[d], "processed", 1)]
    /\ index = {[doc |-> d, chunk |-> c, file_type |-> InitialTypes[d], run |-> 1] :
                   d \in 1..Len(InitialTypes), c \in 1..MaxChunks}
    /\ nextDocId = Len(InitialTypes) + 1

\* the views the chat specification moves between: leaving 'chat' unmounts
\* ChatInterface, coming back mounts a new one
ChatViews == {"chat", "documents"}


NextChat ==
    \/ ChatFetchDocumentsDone
    \/ ChatFetchDocumentsFail
    \/ \E d \in 1..MaxDocs : ToggleDocSelection(d)
    \/ \E v \in ChatViews : SetActiveView(v)
    \/ \E input \in ChatInputs(nextRid) : HandleSubmit(input)
    \/ \E rid \in 1..MaxSends : SendMessageOk(rid)
    \/ \E rid \in 1..MaxSends, reached \in BOOLEAN : SendMessageFail(rid, reached)
    \/ \E f \in sessionFetches : FetchSessionsDone(f)
    \/ \E f \in sessionFetches : FetchSessionsFail(f)
    \/ \E sid \in messageLoads : LoadSessionMessagesDone(sid)
    \/ \E sid \in messageLoads : LoadSessionMessagesFail(sid)
    \/ ClearMessages

\* the Documents view: uploads, ingestion, deletes and refreshes
UploadViews == {"chat", "documents"}

NextUpload ==
    \/ \E v \in UploadViews : SetActiveView(v)
    \/ \E files \in DropSequences : OnDrop(files)
    \/ \E loop \in dropLoops : ServerUpload(loop)
    \/ \E loop \in dropLoops : ServerUploadFail(loop)
    \/ \E d \in 1..MaxDocs, n \in 0..MaxChunks : ServerIngestDone(d, n)
    \/ \E d \in 1..MaxDocs : ServerIngestFail(d)
    \/ \E loop \in dropLoops : ServerListForUpload(loop)
    \/ \E loop \in dropLoops, refreshed \in BOOLEAN : UploadDone(loop, refreshed)
    \/ \E loop \in dropLoops : UploadFail(loop)
    \/ \E r \in dpRefreshes : ServerListForRefresh(r)
    \/ \E r \in dpRefreshes : RefreshDocumentsDone(r)
    \/ \E r \in dpRefreshes : RefreshDocumentsFail(r)
    \/ \E d \in 1..MaxDocs : HandleDelete(d)
    \/ \E r \in deletes : ServerDelete(r)
    \/ \E r \in deletes : ServerDeleteFail(r)
    \/ \E r \in deletes : HandleDeleteDone(r)
    \/ \E r \in deletes : DeleteFail(r)

\* the Knowledge Base view over a knowledge base that already holds documents
KnowledgeViews == {"chat", "knowledge"}

NextKnowledge ==
    \/ \E v \in KnowledgeViews : SetActiveView(v)
    \/ \E r \in dpRefreshes : ServerListForRefresh(r)
    \/ \E r \in dpRefreshes : RefreshDocumentsDone(r)
    \/ \E r \in dpRefreshes : RefreshDocumentsFail(r)
    \/ \E k \in kbDocFetches : KbFetchDocumentsDone(k)
    \/ \E k \in kbDocFetches : KbFetchDocumentsFail(k)
    \/ \E d \in 1..Len(InitialTypes) : KbDeleteDocument(d)
    \/ \E r \in deletes : ServerDelete(r)
    \/ \E r \in deletes : ServerDeleteFail(r)
    \/ \E r \in deletes : KbDeleteDocumentDone(r)
    \/ \E r \in deletes : DeleteFail(r)
    \/ \E q \in Inputs : SetSearchQuery(q)
    \/ \E t \in FileTypes : SetSelectedFileType(t)
    \/ HandleSearch
    \/ \E srch \in searches, hits \in SUBSET index : ServerSearch(srch, hits)
    \/ \E srch \in searches : ServerSearchFail(srch)
    \/ \E srch \in searches : HandleSearchDone(srch)
    \/ \E srch \in searches : HandleSearchFail(srch)
    \/ ClearKnowledgeBase
    \/ \E c \in kbClears : ServerClear(c)
    \/ \E c \in kbClears : ServerClearFail(c)
    \/ \E c \in kbClears : ClearKnowledgeBaseDone(c)
    \/ \E c \in kbClears : ClearKnowledgeBaseFail(c)

SpecChat == InitChat /\ [][NextChat]_vars

SpecUpload == InitDocs /\ [][NextUpload]_vars

SpecKnowledge == InitKnowledge /\ [][NextKnowledge]_vars

(***************************************************************************)
(* ChatProvider called through its context value (useChat) by any          *)
(* consumer: sendMessage(content, selectedDocIds?) with or without the     *)
(* optional selection, switchSession and clearMessages.                    *)
(***************************************************************************)
\* texts passed as content of the n-th message
MessageTexts(n) == {Trim(input) : input \in ChatInputs(n)} \ {<<>>}

\* argument lists of the n-th call of sendMessage: the selection is optional
SendMessageArgs(n) ==
    {<<content>> : content \in MessageTexts(n)}
        \cup {<<content, sel>> : content \in MessageTexts(n),
                                 sel \in {<<>>, <<1>>}}

\* body of POST /chat/message as sendMessage builds it from its arguments.
\* With selectedDocIds undefined, selectedDocIds && ... is undefined and the
\* body has no use_knowledge_base; selectedDocIds || [] is the empty list.
MessageBody(args) ==
    LET base == [message |-> args[1],
                 session_id |-> currentSession,
                 selected_documents |-> IF Len(args) >= 2 THEN args[2] ELSE <<>>,
                 hadSession |-> (currentSession # None),
                 live |-> FALSE]
    IN IF Len(args) >= 2
       THEN [message |-> base.message,
             session_id |-> base.session_id,
             use_knowledge_base |-> UseKnowledgeBase(args[2]),
             selected_documents |-> base.selected_documents,
             hadSession |-> base.hadSession,
             live |-> base.live]
       ELSE base

HasFlag(req) == "use_knowledge_base" \in DOMAIN req

\* sendMessage(...args) up to its await
SendMessage(args) ==
    /\ nextRid <= MaxSends
    /\ messages' = Append(messages, UserMessage(args[1]))
    /\ chatReqs' = chatReqs @@ (nextRid :> MessageBody(args))
    /\ nextRid' = nextRid + 1
    /\ UNCHANGED <<homeVars, emitLog, emitVars, currentSession, sessions, sessionFetches,
                   messageLoads, chatInterfaceVars, globalVars, docProviderVars,
                   kbStateVars, kbReqVars, srvChatVars, srvDocVars>>

\* the request as the ChatOrchestrator reads it: a body without the flag
\* gets the value the back end's request schema defaults to
Received(req, dflt) ==
    [message |-> req.message,
     session_id |-> req.session_id,
     use_knowledge_base |-> IF HasFlag(req) THEN req.use_knowledge_base ELSE dflt,
     selected_documents |-> req.selected_documents,
     hadSession |-> req.hadSession,
     live |-> req.live]

\* the request is answered; sendMessage after the await.  The default only
\* matters for a body without the flag.
SendMessageAnswered(rid, dflt) ==
    /\ rid \in DOMAIN chatReqs
    /\ HasFlag(chatReqs[rid]) => dflt
    /\ LET req == Received(chatReqs[rid], dflt)
           data == ChatResponse(req)
       IN /\ ServerChat(req)
          /\ messages' = Append(messages, AssistantMessage(data.response))
          /\ sessionFetches' =
                IF ~req.hadSession /\ data.session_id # None
                THEN sessionFetches \cup {[hadSession |-> FALSE]}
                ELSE sessionFetches
    /\ chatReqs' = Without(chatReqs, rid)
    /\ UNCHANGED <<homeVars, emitLog, emitVars, currentSession, sessions, nextRid, messageLoads,
                   chatInterfaceVars, globalVars, docProviderVars, kbStateVars,
                   kbReqVars, srvDocVars>>

\* the request is rejected before it reaches the back end; sendMessage's
\* catch logs and rethrows
SendMessageRejected(rid) ==
    /\ rid \in DOMAIN chatReqs
    /\ chatReqs' = Without(chatReqs, rid)
    /\ UNCHANGED <<homeVars, emitLog, emitVars, messages, currentSession, sessions, nextRid,
                   sessionFetches, messageLoads, chatInterfaceVars, globalVars,
                   docProviderVars, kbStateVars, kbReqVars, srvChatVars,
                   srvDocVars>>

\* switchSession(sessionId) up to the await inside loadSessionMessages
SwitchSession(sessionId) ==
    /\ Includes(sessions, sessionId)
    /\ currentSession' = sessionId
    /\ messageLoads' = messageLoads \cup {sessionId}
    /\ UNCHANGED <<homeVars, emitLog, emitVars, messages, sessions, chatReqs, nextRid,
                   sessionFetches, chatInterfaceVars, globalVars, docProviderVars,
                   kbStateVars, kbReqVars, srvChatVars, srvDocVars>>

NextProvider ==
    \/ \E args \in SendMessageArgs(nextRid) : SendMessage(args)
    \/ \E rid \in 1..MaxSends, dflt \in BOOLEAN : SendMessageAnswered(rid, dflt)
    \/ \E rid \in 1..MaxSends : SendMessageRejected(rid)
    \/ \E sid \in 1..MaxSends : SwitchSession(sid)
    \/ \E f \in sessionFetches : FetchSessionsDone(f)
    \/ \E f \in sessionFetches : FetchSessionsFail(f)
    \/ \E sid \in messageLoads : LoadSessionMessagesDone(sid)
    \/ \E sid \in messageLoads : LoadSessionMessagesFail(sid)
    \/ ClearMessages

SpecProvider == InitChat /\ [][NextProvider]_vars

(***************************************************************************)
(* EventEmitter on its own: on, off and emit called in any order, emit     *)
(* taken one listener call at a time.  forEach reads the array's length    *)
(* once and walks the array object it was called on: on pushes onto the    *)
(* array object the key holds, off puts a new (filtered) array under the   *)
(* key.  A listener may call on or off before it returns.                  *)
(***************************************************************************)
EmitterEvents == {UPLOADED, PROCESSED}
EmitterListeners == {KnowledgeBaseListener, ChatInterfaceListener(<<>>)}
EmitArgs == {<<>>, <<"doc">>}

\* no forEach is running
Idle == IF emitting = NoEmit THEN TRUE ELSE emitting.i > emitting.len

EmitterFrame ==
    UNCHANGED <<homeVars, chatProviderVars, chatInterfaceVars, lastToast, emitLog,
                docProviderVars, kbStateVars, kbReqVars, srvChatVars, srvDocVars>>

\* documentEvents.on(event, listener), called from outside any emit
EmOn(event, listener) ==
    /\ Idle
    /\ Len(Listeners(event)) < MaxListeners
    /\ events' = On(events, event, listener)
    /\ UNCHANGED <<emitting, calls>>
    /\ EmitterFrame

\* documentEvents.off(event, listener), called from outside any emit
EmOff(event, listener) ==
    /\ Idle
    /\ events' = Off(events, event, listener)
    /\ UNCHANGED <<emitting, calls>>
    /\ EmitterFrame

\* emit(event, ...args) is called: it returns at once when the key is
\* absent, otherwise forEach starts on the array the key holds.  atStart,
\* added and removed only record what the properties below speak about.
EmitStart(event, args) ==
    /\ Idle
    /\ emitting' = [event |-> event, args |-> args,
                    arr |-> Listeners(event), len |-> Len(Listeners(event)),
                    i |-> 1, same |-> (event \in DOMAIN events),
                    atStart |-> Listeners(event), added |-> {}, removed |-> {}]
    /\ calls' = <<>>
    /\ UNCHANGED events
    /\ EmitterFrame

\* what the listener being called does to the registry before it returns
Reentry(kind, event, listener) ==
    /\ IF kind = "on" THEN /\ Len(Listeners(event)) < MaxListeners
                           /\ events' = On(events, event, listener)
       ELSE IF kind = "off" THEN events' = Off(events, event, listener)
       ELSE events' = events
    /\ emitting' =
          [emitting EXCEPT
             !.i = @ + 1,
             !.arr = IF kind = "on" /\ event = emitting.event /\ emitting.same
                     THEN Append(@, listener) ELSE @,
             !.same = IF kind = "off" /\ event = emitting.event
                         /\ event \in DOMAIN events
                      THEN FALSE ELSE @,
             !.added = IF kind = "on" /\ event = emitting.event
                       THEN @ \cup {listener} ELSE @,
             !.removed = IF kind = "off" /\ event = emitting.event
                            /\ Includes(Listeners(event), listener)
                         THEN @ \cup {listener} ELSE @]

\* EmitCall that calls listener() without the arguments
EmitCall_noArgs(kind, event, listener) ==
    /\ ~Idle
    /\ calls' = Append(calls, [listener |-> emitting.arr[emitting.i],
                               args |-> <<>>])
    /\ Reentry(kind, event, listener)
    /\ EmitterFrame

\* EmitCall as a loop that reads this.events[event] and its length anew on
\* every round
EmitCall_liveArray(kind, event, listener) ==
    /\ ~Idle
    /\ emitting.i <= Len(Listeners(emitting.event))
    /\ calls' = Append(calls, [listener |-> Listeners(emitting.event)[emitting.i],
                               args |-> emitting.args])
    /\ IF kind = "on" THEN /\ Len(Listeners(event)) < MaxListeners
                           /\ events' = On(events, event, listener)
       ELSE IF kind = "off" THEN events' = Off(events, event, listener)
       ELSE events' = events
    /\ emitting' =
          [emitting EXCEPT
             !.i = @ + 1,
             !.len = IF emitting.event \in DOMAIN events'
                     THEN Len(events'[emitting.event]) ELSE 0,
             !.added = IF kind = "on" /\ event = emitting.event
                       THEN @ \cup {listener} ELSE @,
             !.removed = IF kind = "off" /\ event = emitting.event
                            /\ Includes(Listeners(event), listener)
                         THEN @ \cup {listener} ELSE @]
    /\ EmitterFrame

\* forEach calls the next listener with the arguments of emit; the listener
\* calls on, off or neither
EmitCall(kind, event, listener) ==
    /\ ~Idle
    /\ calls' = Append(calls, [listener |-> emitting.arr[emitting.i],
                               args |-> emitting.args])
    /\ Reentry(kind, event, listener)
    /\ EmitterFrame

NextEmitter ==
    \/ \E e \in EmitterEvents, l \in EmitterListeners : EmOn(e, l)
    \/ \E e \in EmitterEvents, l \in EmitterListeners : EmOff(e, l)
    \/ \E e \in EmitterEvents, a \in EmitArgs : EmitStart(e, a)
    \/ \E kind \in {"none", "on", "off"}, e \in EmitterEvents,
          l \in EmitterListeners : EmitCall(kind, e, l)

SpecEmitter == InitDocs /\ [][NextEmitter]_vars

\* C16: emit(e, args) calls every listener registered for e, once per
\* registration, in registration order and with exactly the arguments given,
\* and calls no listener that is registered only for another event; on an
\* event with no listeners it calls nothing.  While the emit runs the calls
\* made so far are the first registrations, in order.
C16_EmitCallsRegisteredInOrder ==
    emitting # NoEmit =>
        LET expected == [k \in 1..Len(emitting.atStart) |->
                            [listener |-> emitting.atStart[k],
                             args |-> emitting.args]]
        IN /\ Len(calls) <= Len(expected)
           /\ calls = SubSeq(expected, 1, Len(calls))
           /\ Idle => calls = expected

\* an emit with arguments has ended on an event that held the same listener
\* twice, while the other listener was registered for the other event only
C16_Witness ==
    /\ emitting # NoEmit
    /\ Idle
    /\ emitting.event = UPLOADED
    /\ emitting.args = <<"doc">>
    /\ Len(calls) = 2
    /\ calls[1].listener = calls[2].listener
    /\ \E l \in EmitterListeners :
          /\ l # calls[1].listener
          /\ Includes(Listeners(PROCESSED), l)
          /\ ~Includes(Listeners(UPLOADED), l)

\* C17: off(e, l) removes every registration of l for e and leaves the other
\* listeners of e, their order and every other event as they were; it
\* changes nothing when e has no listeners or l is not registered for e; a
\* second off(e, l) changes nothing more.
C17_OffRemovesEveryRegistration ==
    \A e \in EmitterEvents, l \in EmitterListeners :
        LET after == Off(events, e, l)
            before == Listeners(e)
            others == {k \in 1..Len(before) : before[k] # l}
        IN /\ DOMAIN after = DOMAIN events
           /\ \A e2 \in DOMAIN events \ {e} : after[e2] = events[e2]
           /\ e \in DOMAIN events =>
                 /\ ~Includes(after[e], l)
                 /\ Len(after[e]) = Cardinality(others)
                 /\ \A k \in others :
                       after[e][Cardinality({j \in others : j <= k})] = before[k]
           /\ (e \notin DOMAIN events \/ ~Includes(before, l)) => after = events
           /\ Off(after, e, l) = after

\* a listener registered twice for one event was removed in one off, in the
\* course of an emit of that event, and the other event kept its listener
C17_Witness ==
    /\ emitting # NoEmit
    /\ Len(emitting.atStart) = 2
    /\ emitting.atStart[1] = emitting.atStart[2]
    /\ emitting.removed = {emitting.atStart[1]}
    /\ emitting.added = {}
    /\ emitting.event \in DOMAIN events
    /\ events[emitting.event] = <<>>
    /\ \E e \in EmitterEvents \ {emitting.event} : Listeners(e) # <<>>

\* C18: emit delivers to exactly the listeners registered when emit was
\* called, also when listeners call on or off in the course of it: a listener
\* removed in the course of the emit is called as often as it was registered
\* at the start, and a registration added in the course of it gets no call
\* from this emit.
C18_EmitDeliversToSnapshot ==
    (emitting # NoEmit /\ Idle) =>
        \A l \in emitting.added \cup emitting.removed :
            Cardinality({k \in 1..Len(calls) : calls[k].listener = l})
                = Cardinality({k \in 1..Len(emitting.atStart) :
                                  emitting.atStart[k] = l})

\* an emit has ended in which the first listener removed the second one,
\* which was called all the same, and a listener added by the second one
\* is registered and was not called
C18_Witness ==
    /\ emitting # NoEmit
    /\ Idle
    /\ Len(emitting.atStart) = 2
    /\ Len(calls) = 2
    /\ calls[2].listener \in emitting.removed
    /\ \E m \in emitting.added :
          /\ ~Includes(emitting.atStart, m)
          /\ Includes(Listeners(emitting.event), m)
          /\ \A k \in 1..Len(calls) : calls[k].listener # m

\* document events: uploads and deletions from either view and the two
\* subscribers, starting with one processed document
InitEvents ==
    /\ InitClient
    /\ InitServerChat
    /\ srvDocs = (1 :> Document("pdf", "processed", 1))
    /\ index = {[doc |-> 1, chunk |-> c, file_type |-> "pdf", run |-> 1] :
                   c \in 1..MaxChunks}
    /\ nextDocId = 2

NextEvents ==
    \/ \E v \in Views : SetActiveView(v)
    \/ ChatFetchDocumentsDone
    \/ ChatFetchDocumentsFail
    \/ \E d \in 1..MaxDocs : ToggleDocSelection(d)
    \/ \E files \in DropSequences : OnDrop(files)
    \/ \E loop \in dropLoops : ServerUpload(loop)
    \/ \E loop \in dropLoops : ServerUploadFail(loop)
    \/ \E loop \in dropLoops : ServerListForUpload(loop)
    \/ \E loop \in dropLoops, refreshed \in BOOLEAN : UploadDone(loop, refreshed)
    \/ \E loop \in dropLoops : UploadFail(loop)
    \/ \E r \in dpRefreshes : ServerListForRefresh(r)
    \/ \E r \in dpRefreshes : RefreshDocumentsDone(r)
    \/ \E r \in dpRefreshes : RefreshDocumentsFail(r)
    \/ \E k \in kbDocFetches : KbFetchDocumentsDone(k)
    \/ \E k \in kbDocFetches : KbFetchDocumentsFail(k)
    \/ \E d \in 1..MaxDocs : HandleDelete(d)
    \/ \E d \in 1..MaxDocs : KbDeleteDocument(d)
    \/ \E r \in deletes : ServerDelete(r)
    \/ \E r \in deletes : ServerDeleteFail(r)
    \/ \E r \in deletes : HandleDeleteDone(r)
    \/ \E r \in deletes : KbDeleteDocumentDone(r)
    \/ \E r \in deletes : DeleteFail(r)

SpecEvents == InitEvents /\ [][NextEvents]_vars

\* the IngestionPipeline on its own
NextIngest ==
    \/ \E i \in DOMAIN InitialTypes : PipelineSubmit(InitialTypes[i])
    \/ \E d \in 1..MaxDocs : PipelineAdvance(d)
    \/ \E d \in 1..MaxDocs : PipelineIndexWrite(d)
    \/ \E d \in 1..MaxDocs : PipelineComplete(d)
    \/ \E d \in 1..MaxDocs : PipelineFail(d)
    \/ \E d \in 1..MaxDocs : PipelineReingest(d)

SpecIngest == InitDocs /\ [][NextIngest]_vars

(***************************************************************************)
(* Properties of the chat (SpecChat).                                      *)
(***************************************************************************)
\* request rid completes in this step
Completes(rid) == rid \in DOMAIN chatReqs /\ rid \notin DOMAIN chatReqs'

\* request rid completes without the back end storing a reply: it failed
Fails(rid) == Completes(rid) /\ srvMessages' = srvMessages

\* request rid is issued in this step
Issued(rid) == rid \notin DOMAIN chatReqs /\ rid \in DOMAIN chatReqs'

\* C1: when a chat request fails, no assistant message is appended: the
\* user's message, appended last when the request was issued, stays as it is,
\* the list is not touched by the failure, and the error reaches the caller
\* (handleSubmit shows the error toast).
C1_FailureAppendsNoAssistant ==
    [][/\ \A rid \in 1..MaxSends : Issued(rid) =>
             /\ messages' = Append(messages, UserMessage(chatReqs'[rid].message))
       /\ \A rid \in 1..MaxSends : Fails(rid) =>
             /\ messages' = messages
             /\ lastToast' = "error"]_vars

\* a request has failed and the list ends with the user's message alone
C1_Witness ==
    /\ lastToast = "error"
    /\ chatReqs = <<>>
    /\ messages # <<>>
    /\ Last(messages).role = "user"

\* C2 as stated: after a failed request the list is back at its pre-request
\* value, the user message of the failed request is no longer in it.
C2_RolledBackOnFailure ==
    [][\A rid \in 1..MaxSends :
          (/\ Fails(rid)
           /\ messages # <<>>
           /\ Last(messages) = UserMessage(chatReqs[rid].message))
          => messages' = SubSeq(messages, 1, Len(messages) - 1)]_vars

\* C2 amended: a failed request does not roll the list back: the user message
\* of the failed request, if it is the last message when the failure is
\* handled, is still the last message afterwards and the list has kept its
\* length.
C2_UserMessageKeptOnFailure ==
    [][\A rid \in 1..MaxSends :
          (/\ Fails(rid)
           /\ messages # <<>>
           /\ Last(messages) = UserMessage(chatReqs[rid].message))
          => /\ Len(messages') = Len(messages)
             /\ Last(messages') = UserMessage(chatReqs[rid].message)]_vars

\* the first request failed and its user message is the whole list
C2_Witness ==
    /\ lastToast = "error"
    /\ chatReqs = <<>>
    /\ nextRid = 2
    /\ messages = <<UserMessage(<<"m", "1">>)>>

\* C3: at most one chat request is in flight at a time, and replies are
\* appended in submission order (no two assistant messages in a row).
C3_OneRequestInFlight ==
    /\ Cardinality(DOMAIN chatReqs) <= 1
    /\ \A i \in 1..(Len(messages) - 1) :
          ~(messages[i].role = "assistant" /\ messages[i + 1].role = "assistant")

C11_ContinuesInReturnedSession ==
    [][\A rid \in 1..MaxSends :
          /\ (Completes(rid) /\ ~Fails(rid) /\ chatReqs[rid].session_id = None)
                => currentSession' = ChatResponse(chatReqs[rid]).session_id
          /\ (Issued(rid) /\ DOMAIN chatReqs = {} /\ srvSessions # <<>>)
                => chatReqs'[rid].session_id = srvSessions[1]]_vars

\* C6: a chat request carrying use_knowledge_base = false never invokes the
\* RetrievalEngine and the attribution list of its response is empty.
C6_NoRetrievalWithoutFlag ==
    ~srvLastChat.use_knowledge_base =>
        /\ ~srvLastChat.retrieved
        /\ srvLastChat.sources = <<>>

\* a request without the flag was answered over a non-empty knowledge base
C6_Witness ==
    /\ srvLastChat.message # <<>>
    /\ ~srvLastChat.use_knowledge_base
    /\ srvSessions # <<>>
    /\ index # {}

\* C21: every chat request sendMessage sends carries use_knowledge_base,
\* true exactly when its selected_documents list is non-empty and false
\* otherwise, also when sendMessage was called without a selection.
C21_KnowledgeBaseIffSelected ==
    \A rid \in DOMAIN chatReqs :
        /\ HasFlag(chatReqs[rid])
        /\ chatReqs[rid].use_knowledge_base
              = (chatReqs[rid].selected_documents # <<>>)

\* C22: in every state each assistant message of the message list comes
\* right after the user message it answers, also when the list is cleared or
\* replaced while a chat request is in flight.
C22_AssistantFollowsItsUserMessage ==
    \A i \in 1..Len(messages) :
        messages[i].role = "assistant" =>
            /\ i > 1
            /\ messages[i - 1].role = "user"
            /\ messages[i].content = Generate(messages[i - 1].content)

(***************************************************************************)
(* Properties of the upload (SpecUpload).                                  *)
(***************************************************************************)
\* files for which an upload request is pending or in flight
FilesInUpload == UNION {SeqToSet(loop.files) : loop \in dropLoops}

\* C5: no upload request is ever issued for a file larger than 10485760
\* bytes or of a type outside PDF, DOCX, TXT, MD, JPG/JPEG, PNG: every file
\* handed to uploadDocument is within the limit and of an accepted type, and
\* every Document the back end holds is of an accepted type.
C5_RejectedFilesNeverUploaded ==
    /\ \A f \in FilesInUpload :
          /\ f.size <= maxSize
          /\ f.ext \in AcceptExts \/ f.mime \in AcceptMimes
    /\ \A d \in DOMAIN srvDocs :
          srvDocs[d].file_type \in {"pdf", "docx", "txt", "md", "jpg", "jpeg", "png"}

\* an oversize file was dropped and rejected, and nothing was uploaded
C5_Witness ==
    /\ \E i \in DOMAIN fileRejections : fileRejections[i].size > maxSize
    /\ dropLoops = {}
    /\ srvDocs = <<>>
    /\ activeView = "documents"

(***************************************************************************)
(* Properties of the knowledge base (SpecKnowledge).                       *)
(***************************************************************************)
\* document ids the back end has handed out and no longer holds
DeletedDocs == (1..(nextDocId - 1)) \ DOMAIN srvDocs

\* a request record of set S is answered or completed in this step, not
\* merely rewritten by a change of view
Step(S, T) == activeView' = activeView /\ S # T

\* C7: once a document is deleted none of its fragments is left in the
\* index: retrieval restricted to its id is empty, and a search answered
\* from then on returns no fragment of it.
C7_DeletedDocumentHasNoFragments ==
    [][/\ \A d \in DeletedDocs' :
             /\ Retrieve(<<d>>)' = {}
             /\ \A f \in index' : f.doc # d
       /\ Step(searches, searches') =>
             \A s \in searches' \ searches : s.stage = "ok" =>
                \A i \in DOMAIN s.results : s.results[i].doc \notin DeletedDocs]_vars

\* a document was deleted while another is still indexed, and a search
\* answered afterwards has returned fragments
C7_Witness ==
    /\ DeletedDocs # {}
    /\ index # {}
    /\ \E s \in searches : s.stage = "ok" /\ s.results # <<>>

\* no request of the knowledge view or of the DocumentProvider is in flight
Quiescent ==
    /\ dpRefreshes = {} /\ deletes = {} /\ dropLoops = {}
    /\ kbDocFetches = {} /\ searches = {} /\ kbClears = {}

\* C8: when the index is empty, no document list held by the system (the
\* back end's, DocumentProvider's, KnowledgeBase's) shows a processed
\* Document, once the requests in flight have completed.
C8_NoProcessedAgainstEmptyIndex ==
    (index = {} /\ Quiescent) =>
        /\ \A d \in DOMAIN srvDocs : srvDocs[d].status # "processed"
        /\ \A i \in DOMAIN dpDocuments : ~dpDocuments[i].processed
        /\ \A i \in DOMAIN kbDocuments : ~kbDocuments[i].processed

\* C9: the clear, when it completes in the KnowledgeBase component that
\* issued it, leaves that component's result list empty; a search answered
\* from the cleared (empty) index yields an empty list; and handleSearch
\* displays that empty list without reporting an error.
C9_SearchAfterClearIsEmpty ==
    [][/\ Step(kbClears, kbClears') =>
             \A c \in kbClears \ kbClears' :
                (c.stage = "ok" /\ c.live) => searchResults' = <<>>
       /\ Step(searches, searches') =>
             /\ \A s \in searches' \ searches :
                   (s.stage = "ok" /\ index = {}) => s.results = <<>>
             /\ \A s \in searches \ searches' :
                   (s.stage = "ok" /\ s.live /\ s.results = <<>>) =>
                      /\ searchResults' = <<>>
                      /\ lastToast' # "error"]_vars

\* the knowledge base was cleared and a search made afterwards has completed
\* with an empty list and the "no results" notice
C9_Witness ==
    /\ index = {} /\ srvDocs = <<>>
    /\ lastToast = "info"
    /\ searchResults = <<>>
    /\ activeView = "knowledge"
    /\ searches = {} /\ kbClears = {}
    /\ kbDocuments = <<>>

\* C10: a search answered with zero results empties the result list of the
\* component that issued it and raises no error (the notice is "info"); a
\* failed search is reported as an error and leaves the result list as it
\* was.
C10_ZeroResultsVersusFailure ==
    [][Step(searches, searches') =>
          \A s \in searches \ searches' :
             /\ (s.stage = "ok" /\ s.results = <<>>) =>
                   /\ lastToast' = "info"
                   /\ s.live => searchResults' = <<>>
             /\ s.stage = "error" =>
                   /\ lastToast' = "error"
                   /\ searchResults' = searchResults]_vars

\* a search failed while an earlier result list was on display, and the
\* list is still there
C10_Witness ==
    /\ lastToast = "error"
    /\ searchResults # <<>>
    /\ searches = {}
    /\ activeView = "knowledge"

\* C23: once DocumentProvider.deleteDocument(id) has succeeded, the id is
\* not in DocumentProvider's document list again, also when a
\* refreshDocuments request issued before the deletion completes after it.
\* (Where every deletion goes through deleteDocument, it has succeeded for
\* the ids the back end no longer holds and no delete is in flight for.)
C23_DeletedIdNeverReappears ==
    \A d \in DeletedDocs :
        (\A r \in deletes : r.id # d) =>
            \A i \in 1..Len(dpDocuments) : dpDocuments[i].id # d

\* C24: the document lists of the views agree after a deletion: when a
\* document was deleted from the KnowledgeBase view and every request has
\* completed, DocumentProvider's list does not contain it either.  (The
\* back end still holding a document tells the deletion of single documents
\* from a clear of the knowledge base.)
C24_ProviderListFollowsKnowledgeDeletion ==
    (Quiescent /\ srvDocs # <<>>) =>
        \A d \in DeletedDocs :
            \A i \in 1..Len(dpDocuments) : dpDocuments[i].id # d

(***************************************************************************)
(* Properties of the IngestionPipeline (SpecIngest).                       *)
(***************************************************************************)
\* C12: in every state where a document is failed the VectorIndex holds no
\* entry belonging to it: whatever was written before the failure has been
\* rolled back.
C12_FailedDocumentLeavesNoFragments ==
    \A d \in DOMAIN srvDocs :
        srvDocs[d].status = "failed" => FragmentsOf(d) = {}

\* one document has failed and holds nothing in the index while another
\* document's fragments are still there
C12_Witness ==
    \E d, e \in DOMAIN srvDocs :
        /\ srvDocs[d].status = "failed"
        /\ FragmentsOf(d) = {}
        /\ FragmentsOf(e) # {}

C14_ReingestLeavesSecondFragmentSet ==
    \A d \in DOMAIN srvDocs :
        /\ \A f \in FragmentsOf(d) : f.run = srvDocs[d].run
        /\ \A f, g \in FragmentsOf(d) : f.chunk = g.chunk => f = g
        /\ {f.chunk : f \in FragmentsOf(d)} = 1..Cardinality(FragmentsOf(d))

\* a document was ingested a second time and is processed with the
\* fragments of that second ingestion
C14_Witness ==
    \E d \in DOMAIN srvDocs :
        /\ srvDocs[d].run = 2
        /\ srvDocs[d].status = "processed"
        /\ FragmentsOf(d) # {}

(***************************************************************************)
(* Properties of the document events (SpecEvents).                         *)
(***************************************************************************)
\* uploadDocument resolves in this step: the loop's file was posted and the
\* loop leaves that file behind
UploadSucceeds ==
    /\ \E loop \in dropLoops \ dropLoops' : loop.stage \in {"posted", "refreshed"}
    /\ \A loop \in dropLoops' \ dropLoops : loop.stage = "post"

\* uploadDocument throws in this step
UploadThrows == \E loop \in dropLoops \ dropLoops' : loop.stage = "post_err"

\* a delete handler goes on after its request was answered with this stage
DeleteEnds(stage) ==
    /\ activeView' = activeView
    /\ \E r \in deletes \ deletes' : r.stage = stage

\* the subscriber mounted in this step's first state has a fetch of its
\* document list under way afterwards
Refetched ==
    /\ activeView = "chat" => chatDocFetch'
    /\ activeView = "knowledge" => [live |-> TRUE] \in kbDocFetches'

\* C15: a successful upload emits UPLOADED once and a successful deletion
\* emits DELETED once, each making the mounted subscriber fetch its document
\* list again; a failed upload or deletion emits nothing, and nothing else
\* emits.
C15_EventsFollowOutcomes ==
    [][/\ UploadSucceeds =>
             emitLog' = Append(emitLog, UPLOADED) /\ Refetched
       /\ DeleteEnds("ok") =>
             emitLog' = Append(emitLog, DELETED) /\ Refetched
       /\ (UploadThrows \/ DeleteEnds("error")) => emitLog' = emitLog
       /\ emitLog' # emitLog => (UploadSucceeds \/ DeleteEnds("ok"))]_vars

\* an upload and a deletion have both been announced, the second one to a
\* mounted KnowledgeBase that is fetching its list again
C15_Witness ==
    /\ Len(emitLog) = 2
    /\ SeqToSet(emitLog) = {UPLOADED, DELETED}
    /\ activeView = "knowledge"
    /\ [live |-> TRUE] \in kbDocFetches
    /\ deletes = {} /\ dropLoops = {}

\* registrations of component comp for an event
Registered(event, comp) ==
    Len(SelectSeq(Listeners(event), LAMBDA l : l.comp = comp))

\* C19: whatever mounts, re-renders and unmounts have happened, the mounted
\* ChatInterface or KnowledgeBase has exactly one handler registered for
\* UPLOADED and one for DELETED, and a component that is not mounted has
\* none.
C19_NoListenerLeak ==
    \A event \in {UPLOADED, DELETED} :
        /\ Registered(event, "ChatInterface") = IF activeView = "chat" THEN 1 ELSE 0
        /\ Registered(event, "KnowledgeBase") =
              IF activeView = "knowledge" THEN 1 ELSE 0

\* ChatInterface was mounted again and has re-subscribed with a non-empty
\* document list after an event
C19_Witness ==
    /\ activeView = "chat"
    /\ emitLog # <<>>
    /\ chatDocuments # <<>>
    /\ Listeners(DELETED) = <<ChatInterfaceListener(chatDocuments)>>

\* C20: once ChatInterface has handled the DELETED event of a deletion and
\* its document list is up to date again, selectedDocs holds no id of a
\* document that no longer exists.
C20_SelectionClearedAfterDeletion ==
    (/\ activeView = "chat"
     /\ emitLog # <<>> /\ Last(emitLog) = DELETED
     /\ deletes = {} /\ dropLoops = {}
     /\ chatDocuments = SelectSeq(ServerListDocuments, LAMBDA doc : doc.processed))
    => \A i \in DOMAIN selectedDocs : selectedDocs[i] \in DOMAIN srvDocs

=============================================================================
